---- MODULE Spec2Model ----
(***************************************************************************)
(* A model of smc-clc: the per-direction CLC stream framer, the CLC        *)
(* message dispatcher and decoders, the flow table, the packet handler     *)
(* and the HTTP output buffer.                                             *)
(***************************************************************************)
EXTENDS Integers, Sequences, FiniteSets, TLC

(***************************************************************************)
(* Program constants.                                                      *)
(***************************************************************************)
CLCMessageMaxSize == 1024
CLCHeaderLen == 8
clcEyecatcherLen == 4
clcTrailerLen == clcEyecatcherLen
clcMessageBufSize == CLCMessageMaxSize * 2
clcProposal == 1
clcAccept == 2
clcConfirm == 3
clcDecline == 4
smcTypeR == 0
smcTypeD == 1
smcTypeB == 3
clcDeclineLen == 28
clcProposalLen == 52
clcSMCRAcceptConfirmLen == 68
clcSMCDAcceptConfirmLen == 48

smcrEyecatcher == <<226, 212, 195, 217>>
smcdEyecatcher == <<226, 212, 195, 196>>

(***************************************************************************)
(* Bounds of the model.                                                    *)
(***************************************************************************)
MaxSegs == 3
MaxChunks == 2
MaxWrites == 2

\* the most messages one framer prints
MaxLines == 2

Dirs == {"c2s", "s2c"}

Min(a, b) == IF a < b THEN a ELSE b
Max(a, b) == IF a > b THEN a ELSE b

(***************************************************************************)
(* The byte streams the model feeds the framer.  A stream is a sequence of *)
(* segments; a segment stands for the bytes of one (possibly malformed or  *)
(* truncated) CLC message: an 8 byte header, a zero body and a trailer at  *)
(* offset len - 4.  "size" is the number of bytes of it on the wire.       *)
(***************************************************************************)
EyeBytes(e) ==
  CASE e = "R" -> smcrEyecatcher
    [] e = "D" -> smcdEyecatcher
    [] OTHER -> <<226, 212, 195, 0>>

Seg(eye, typ, len, path, trl, size) ==
  [eye |-> eye, typ |-> typ, len |-> len, path |-> path, trl |-> trl, size |-> size]

Catalogue ==
  { Seg("R", clcDecline, 28, smcTypeR, "R", 28),       \* the README's decline
    Seg("R", clcDecline, 28, smcTypeR, "X", 28),       \* invalid trailer
    Seg("R", clcDecline, 1024, smcTypeR, "R", 1024),   \* maximum size
    Seg("R", clcDecline, 28, smcTypeR, "R", 20),       \* truncated body
    Seg("D", clcAccept, 48, smcTypeD, "R", 48),        \* SMC-D accept, SMC-R trailer
    Seg("R", clcAccept, 48, smcTypeB, "R", 48),        \* accept with path 3
    Seg("R", clcDecline, 4, smcTypeR, "R", 8) }        \* declared length below the header

SegByte(seg, k) ==
  CASE k < clcEyecatcherLen -> EyeBytes(seg.eye)[k + 1]
    [] k = 4 -> seg.typ
    [] k = 5 -> seg.len \div 256
    [] k = 6 -> seg.len % 256
    [] k = 7 -> 16 + seg.path
    [] k >= CLCHeaderLen /\ k >= seg.len - clcTrailerLen /\ k < seg.len ->
         EyeBytes(seg.trl)[k - (seg.len - clcTrailerLen) + 1]
    [] OTHER -> 0

RECURSIVE StreamLen(_)
StreamLen(segs) ==
  IF segs = <<>> THEN 0 ELSE Head(segs).size + StreamLen(Tail(segs))

RECURSIVE ByteAt(_, _)
ByteAt(segs, i) ==
  IF segs = <<>> THEN 0
  ELSE IF i < Head(segs).size THEN SegByte(Head(segs), i)
  ELSE ByteAt(Tail(segs), i - Head(segs).size)

Streams == UNION { [1..n -> Catalogue] : n \in 1..MaxSegs }

VARIABLES
  stream,     \* per direction: the bytes the peer sends (a sequence of segments)
  delivered,  \* per direction: bytes handed to the ReaderStream so far
  chunks,     \* per direction: number of Reassembled calls so far
  rpos,       \* per direction: bytes taken out of the ReaderStream by Read
  rwait,      \* per direction: the assembler is blocked in Reassembled (<-r.done)
  rclosed,    \* per direction: ReassemblyComplete has closed the ReaderStream
  fpc,        \* per direction: "none" | "run" | "discard" | "done" | "panic"
  total, skip, eof, clc, clcLen,  \* per direction: the locals of smcStream.run
  emitted,    \* the lines printCLC has written, in order
  sflow,      \* per direction: the net and transport flow New stored in the smcStream
  fmap,       \* flowTable.fmap: net flow -> set of transport flows mapped to true
  ftLock,     \* flowTable.lock: "free" or the caller holding it
  ftCall,     \* per caller: the flow table call in progress, its phase and result
  ftLast,     \* per flow pair: the last completed add or del ("none" before any)
  conn,       \* the TCP connection on the wire: options of SYN and SYN-ACK, the sender
  ppos,       \* the next packet of the connection
  psent,      \* payload bytes of the sender put on the wire so far
  psegs,      \* number of data packets so far
  hpc,        \* handlePacket: "idle" | "wait" (inside the assembler, in Reassembled)
  hcur,       \* the packet the assembler is delivering
  hlast,      \* the packet handlePacket was last called with, whether it was pushed
              \* to the assembler, and the flow table before the call
  asmConn,    \* per direction: the assembler's connection "none" | "open" | "closed"
  httpBuffer, \* the HTTP output buffer: the lines written and not yet reset
  nwrites,    \* lines written to the HTTP output buffer so far
  req,        \* per HTTP request slot: the query, printHTTP's position, the reply
  lastDone,   \* the request that finished last: whether it flushed, and its reply
  quiet,      \* nothing was written since lastDone finished
  served,     \* the bytes that some response has contained
  dIn,        \* the message handed to a variant decoder
  dOut,       \* what the decoder did with it (ran is false before it ran)
  hIn,        \* the 8 bytes handed to NewMessage and to header.Parse
  hOut,       \* what NewMessage returned for them and what header.Parse decoded
  lpc,        \* the capture loop: "select" | "handling" | "exited"
  count,      \* the capture loop's count of handled packets
  maxPkts,    \* the configured maximum packet count (MaxPkts)
  maxTime,    \* the configured maximum duration (MaxTime)
  stopFired,  \* time.After(MaxTime) has sent on the stop channel
  wq,         \* per framer: the Write calls its printCLC still has to make
  wnext,      \* per framer: number of messages it has printed
  wlock,      \* the output buffer's lock: "free" or the framer holding it
  wpc,        \* per framer: where it is in buffer.Write
  showDumps,  \* the -dumps flag
  oIn,        \* the TCP options handed to CheckSMCOption
  oOut        \* what CheckSMCOption returned for them

framerVars == <<stream, delivered, chunks, rpos, rwait, rclosed, fpc,
                total, skip, eof, clc, clcLen, emitted, sflow>>

ftVars == <<fmap, ftLock, ftCall, ftLast>>

pipeVars == <<conn, ppos, psent, psegs, hpc, hcur, hlast, asmConn>>

httpVars == <<httpBuffer, nwrites, req, lastDone, quiet, served>>

decVars == <<dIn, dOut, hIn, hOut>>

loopVars == <<lpc, count, maxPkts, maxTime, stopFired>>

outVars == <<wq, wnext, wlock, wpc, showDumps>>

optVars == <<oIn, oOut>>

vars == <<framerVars, ftVars, pipeVars, httpVars, decVars, loopVars, outVars, optVars>>

(***************************************************************************)
(* The flow table (flowTable.add, del, get); the bodies run under the      *)
(* table's mutex.  A Go map of maps: a net flow without an inner map is    *)
(* not in DOMAIN fm; the inner map is the set of its true entries.         *)
(***************************************************************************)
Nets == {"n1", "n2"}
Trans == {"t1", "t2"}
FlowPairs == Nets \X Trans

EmptyFlowMap == [n \in {} |-> {}]

\* the net and transport flow of each direction of the connection
NetFlow(d) == IF d = "c2s" THEN "n1" ELSE "n2"
TransFlow(d) == IF d = "c2s" THEN "t1" ELSE "t2"

\* FlowAdd with a fault: nothing is recorded
FlowAddNothing(fm, net, trans) == fm

\* FlowDel with a fault: the whole inner map of the net flow is dropped
FlowDelNet(fm, net, trans) ==
  [n \in DOMAIN fm \ {net} |-> fm[n]]

FlowAdd(fm, net, trans) ==
  [n \in DOMAIN fm \cup {net} |->
     IF n = net
     THEN (IF net \in DOMAIN fm THEN fm[net] ELSE {}) \cup {trans}
     ELSE fm[n]]

FlowDel(fm, net, trans) ==
  IF net \in DOMAIN fm
  THEN [fm EXCEPT ![net] = @ \ {trans}]
  ELSE fm

FlowGet(fm, net, trans) ==
  IF net \in DOMAIN fm THEN trans \in fm[net] ELSE FALSE

(***************************************************************************)
(* Eyecatcher, header and dispatcher (package messages).                   *)
(***************************************************************************)
hasEyecatcher(buf) ==
  \/ SubSeq(buf, 1, clcEyecatcherLen) = smcrEyecatcher
  \/ SubSeq(buf, 1, clcEyecatcherLen) = smcdEyecatcher

\* eyecatcher.String
EyecatcherString(e) ==
  IF e = smcrEyecatcher THEN "SMC-R"
  ELSE IF e = smcdEyecatcher THEN "SMC-D"
  ELSE "Unknown"

\* binary.BigEndian.Uint16(buf[5:7]); buf is 1-based here
Uint16At(buf, off) == buf[off + 1] * 256 + buf[off + 2]

\* HeaderParse with a fault: the flag and the reserved bit are taken from
\* each other's place
HeaderParseSwapped(buf) ==
  [ eyecatcher |-> SubSeq(buf, 1, clcEyecatcherLen),
    typ        |-> buf[5],
    Length     |-> Uint16At(buf, 5),
    version    |-> (buf[8] \div 16) % 16,
    flag       |-> (buf[8] \div 4) % 2,
    reserved   |-> (buf[8] \div 8) % 2,
    path       |-> buf[8] % 4 ]

\* header.Parse: the fields of the 8 byte header
HeaderParse(buf) ==
  [ eyecatcher |-> SubSeq(buf, 1, clcEyecatcherLen),
    typ        |-> buf[5],
    Length     |-> Uint16At(buf, 5),
    version    |-> (buf[8] \div 16) % 16,
    flag       |-> (buf[8] \div 8) % 2,
    reserved   |-> (buf[8] \div 4) % 2,
    path       |-> buf[8] % 4 ]

\* NewMessage: the empty message of the right variant and the declared length,
\* or (nil, 0)
NoMessage == [msg |-> "nil", len |-> 0]

\* NewMessage with a fault: an Accept or Confirm whose path is not SMC-D
\* is taken for SMC-R
NewMessageLoose(buf) ==
  IF ~hasEyecatcher(buf) THEN NoMessage
  ELSE LET length == Uint16At(buf, 5)
           typ == buf[5]
           path == buf[8] % 4
       IN IF length > CLCMessageMaxSize THEN NoMessage
          ELSE CASE typ = clcProposal -> [msg |-> "Proposal", len |-> length]
                 [] typ = clcAccept /\ path # smcTypeD -> [msg |-> "SMCRAccept", len |-> length]
                 [] typ = clcAccept /\ path = smcTypeD -> [msg |-> "SMCDAccept", len |-> length]
                 [] typ = clcConfirm /\ path # smcTypeD -> [msg |-> "SMCRConfirm", len |-> length]
                 [] typ = clcConfirm /\ path = smcTypeD -> [msg |-> "SMCDConfirm", len |-> length]
                 [] typ = clcDecline -> [msg |-> "Decline", len |-> length]
                 [] OTHER -> NoMessage

NewMessage(buf) ==
  IF ~hasEyecatcher(buf) THEN NoMessage
  ELSE LET length == Uint16At(buf, 5)
           typ == buf[5]
           path == buf[8] % 4
       IN IF length > CLCMessageMaxSize THEN NoMessage
          ELSE CASE typ = clcProposal -> [msg |-> "Proposal", len |-> length]
                 [] typ = clcAccept /\ path = smcTypeR -> [msg |-> "SMCRAccept", len |-> length]
                 [] typ = clcAccept /\ path = smcTypeD -> [msg |-> "SMCDAccept", len |-> length]
                 [] typ = clcConfirm /\ path = smcTypeR -> [msg |-> "SMCRConfirm", len |-> length]
                 [] typ = clcConfirm /\ path = smcTypeD -> [msg |-> "SMCDConfirm", len |-> length]
                 [] typ = clcDecline -> [msg |-> "Decline", len |-> length]
                 [] OTHER -> NoMessage

\* VariantMinLen with a fault: only the header's length is asked for
VariantMinLenHeader(msg) == CLCHeaderLen

\* the minimum length each variant's Parse checks before it reads the body
VariantMinLen(msg) ==
  CASE msg = "Proposal" -> clcProposalLen
    [] msg \in {"SMCRAccept", "SMCRConfirm"} -> clcSMCRAcceptConfirmLen
    [] msg \in {"SMCDAccept", "SMCDConfirm"} -> clcSMCDAcceptConfirmLen
    [] OTHER -> clcDeclineLen

\* trailer.Parse: the last four bytes of buf
TrailerParse(buf) == SubSeq(buf, Len(buf) - clcTrailerLen + 1, Len(buf))

\* Message.Parse(buf) of a variant, as clcDeclineMsg.Parse: parse the header
\* (indexing buf[4] and buf[7] panics on a buffer shorter than the header),
\* return early when the message is too short, else read the body and the
\* trailer at the end of buf
Parse(msg, buf) ==
  IF Len(buf) < CLCHeaderLen
  THEN [panic |-> TRUE, short |-> FALSE, hdr |-> <<>>, trailer |-> "Unknown"]
  ELSE LET hdr == HeaderParse(buf)
       IN IF hdr.Length < VariantMinLen(msg)
          THEN [panic |-> FALSE, short |-> TRUE, hdr |-> hdr, trailer |-> "Unknown"]
          ELSE [panic |-> FALSE, short |-> FALSE, hdr |-> hdr,
                trailer |-> EyecatcherString(TrailerParse(buf))]

(***************************************************************************)
(* tcpreader.ReaderStream as the framer and the assembler use it.          *)
(***************************************************************************)
Pending(d) == delivered[d] - rpos[d]

\* Reassembled: hand n more bytes to the reader and wait for <-r.done
ReaderReassembled(d, n) ==
  /\ delivered' = [delivered EXCEPT ![d] = @ + n]
  /\ chunks' = [chunks EXCEPT ![d] = @ + 1]
  /\ rwait' = [rwait EXCEPT ![d] = TRUE]

\* ReaderStream.ReassemblyComplete: close the channels
ReaderComplete(d) == rclosed' = [rclosed EXCEPT ![d] = TRUE]

(***************************************************************************)
(* smcStream.run                                                           *)
(***************************************************************************)
\* buf[i]: make() zeroes the buffer and Read fills it from the front
Buf(d, i) == IF i < total[d] THEN ByteAt(stream[d], i) ELSE 0

\* buf[lo:hi]
Slice(d, lo, hi) == [k \in 1..(hi - lo) |-> Buf(d, lo + k - 1)]

NoPanic == \A d \in Dirs : fpc[d] # "panic"

\* SkipToEnd with a fault: the absolute end of the first message
SkipToEndAbsolute(s, len) == len

\* skip after a header preview: skip += int(clcLen) - messages.CLCHeaderLen
SkipToEnd(s, len) == s + len - CLCHeaderLen

\* SkipToNextHeader with a fault: skip is left at the message's end
SkipToNextHeaderStay(s) == s

\* skip after a message was parsed and printed: skip += messages.CLCHeaderLen
SkipToNextHeader(s) == s + CLCHeaderLen

\* FramerRead with a fault: a read that does not bring the buffer up to skip
\* is taken for the end of the stream
FramerReadShortEOF(d) ==
  /\ NoPanic
  /\ fpc[d] = "run"
  /\ total[d] < skip[d] /\ ~eof[d]
  /\ \/ /\ Pending(d) > 0
        /\ LET n == Min(clcMessageBufSize - total[d], Pending(d))
           IN /\ total' = [total EXCEPT ![d] = @ + n]
              /\ rpos' = [rpos EXCEPT ![d] = @ + n]
              /\ eof' = [eof EXCEPT ![d] = total[d] + n < skip[d]]
        /\ UNCHANGED rwait
     \/ /\ Pending(d) = 0 /\ rclosed[d]
        /\ eof' = [eof EXCEPT ![d] = TRUE]
        /\ UNCHANGED <<total, rpos, rwait>>
     \/ /\ Pending(d) = 0 /\ ~rclosed[d] /\ rwait[d]
        /\ rwait' = [rwait EXCEPT ![d] = FALSE]
        /\ UNCHANGED <<total, rpos, eof>>
  /\ UNCHANGED <<stream, delivered, chunks, rclosed, fpc, skip, clc, clcLen, emitted, sflow>>

\* one s.r.Read(buf[total:]) of the inner loop
FramerRead(d) ==
  /\ NoPanic
  /\ fpc[d] = "run"
  /\ total[d] < skip[d] /\ ~eof[d]
  /\ \/ /\ Pending(d) > 0
        /\ LET n == Min(clcMessageBufSize - total[d], Pending(d))
           IN /\ total' = [total EXCEPT ![d] = @ + n]
              /\ rpos' = [rpos EXCEPT ![d] = @ + n]
        /\ UNCHANGED <<eof, rwait>>
     \/ /\ Pending(d) = 0 /\ rclosed[d]
        /\ eof' = [eof EXCEPT ![d] = TRUE]
        /\ UNCHANGED <<total, rpos, rwait>>
     \/ /\ Pending(d) = 0 /\ ~rclosed[d] /\ rwait[d]
        /\ rwait' = [rwait EXCEPT ![d] = FALSE]
        /\ UNCHANGED <<total, rpos, eof>>
  /\ UNCHANGED <<stream, delivered, chunks, rclosed, fpc, skip, clc, clcLen, emitted, sflow>>

\* clc != nil: clc.Parse(buf[skip-int(clcLen) : skip]); printCLC(s, clc)
FramerParse(d) ==
  /\ NoPanic
  /\ fpc[d] = "run"
  /\ ~(total[d] < skip[d] /\ ~eof[d])
  /\ clc[d] # "nil"
  /\ LET lo == skip[d] - clcLen[d]
         hi == skip[d]
     IN IF lo < 0 \/ hi > clcMessageBufSize
        THEN /\ fpc' = [fpc EXCEPT ![d] = "panic"]
             /\ UNCHANGED <<skip, clc, clcLen, emitted>>
        ELSE LET p == Parse(clc[d], Slice(d, lo, hi))
             IN IF p.panic
                THEN /\ fpc' = [fpc EXCEPT ![d] = "panic"]
                     /\ UNCHANGED <<skip, clc, clcLen, emitted>>
                ELSE /\ emitted' = Append(emitted,
                            [dir |-> d, flow |-> sflow[d], start |-> lo, len |-> clcLen[d],
                             msg |-> clc[d], typ |-> p.hdr.typ, path |-> p.hdr.path,
                             short |-> p.short, trailer |-> p.trailer,
                             got |-> total[d]])
                     /\ clc' = [clc EXCEPT ![d] = "nil"]
                     /\ clcLen' = [clcLen EXCEPT ![d] = 0]
                     /\ skip' = [skip EXCEPT ![d] = SkipToNextHeader(@)]
                     /\ UNCHANGED fpc
  /\ UNCHANGED <<stream, delivered, chunks, rpos, rwait, rclosed, total, eof, sflow>>

\* FramerPreview with a fault: a rejected header is stepped over and the
\* framer looks for the next one
FramerPreviewResync(d) ==
  /\ NoPanic
  /\ fpc[d] = "run"
  /\ ~(total[d] < skip[d] /\ ~eof[d])
  /\ clc[d] = "nil"
  /\ IF total[d] < skip[d]
     THEN /\ fpc' = [fpc EXCEPT ![d] = "discard"]
          /\ UNCHANGED <<skip, clc, clcLen>>
     ELSE LET m == NewMessage(Slice(d, skip[d] - CLCHeaderLen, skip[d]))
          IN IF m.msg = "nil"
             THEN /\ skip' = [skip EXCEPT ![d] = SkipToNextHeader(@)]
                  /\ UNCHANGED <<fpc, clc, clcLen>>
             ELSE /\ clc' = [clc EXCEPT ![d] = m.msg]
                  /\ clcLen' = [clcLen EXCEPT ![d] = m.len]
                  /\ skip' = [skip EXCEPT ![d] = SkipToEnd(@, m.len)]
                  /\ UNCHANGED fpc
  /\ UNCHANGED <<stream, delivered, chunks, rpos, rwait, rclosed, total, eof, emitted, sflow>>

\* clc == nil: break when the buffer holds less than skip bytes, else preview
\* the header with NewMessage and either break or skip to the message's end
FramerPreview(d) ==
  /\ NoPanic
  /\ fpc[d] = "run"
  /\ ~(total[d] < skip[d] /\ ~eof[d])
  /\ clc[d] = "nil"
  /\ IF total[d] < skip[d]
     THEN /\ fpc' = [fpc EXCEPT ![d] = "discard"]
          /\ UNCHANGED <<skip, clc, clcLen>>
     ELSE LET m == NewMessage(Slice(d, skip[d] - CLCHeaderLen, skip[d]))
          IN IF m.msg = "nil"
             THEN /\ fpc' = [fpc EXCEPT ![d] = "discard"]
                  /\ UNCHANGED <<skip, clc, clcLen>>
             ELSE /\ clc' = [clc EXCEPT ![d] = m.msg]
                  /\ clcLen' = [clcLen EXCEPT ![d] = m.len]
                  /\ skip' = [skip EXCEPT ![d] = SkipToEnd(@, m.len)]
                  /\ UNCHANGED fpc
  /\ UNCHANGED <<stream, delivered, chunks, rpos, rwait, rclosed, total, eof, emitted, sflow>>

\* tcpreader.DiscardBytesToEOF(&s.r)
FramerDiscard(d) ==
  /\ NoPanic
  /\ fpc[d] = "discard"
  /\ \/ /\ Pending(d) > 0
        /\ rpos' = [rpos EXCEPT ![d] = delivered[d]]
        /\ UNCHANGED <<rwait, fpc>>
     \/ /\ Pending(d) = 0 /\ rclosed[d]
        /\ fpc' = [fpc EXCEPT ![d] = "done"]
        /\ UNCHANGED <<rpos, rwait>>
     \/ /\ Pending(d) = 0 /\ ~rclosed[d] /\ rwait[d]
        /\ rwait' = [rwait EXCEPT ![d] = FALSE]
        /\ UNCHANGED <<rpos, fpc>>
  /\ UNCHANGED <<stream, delivered, chunks, rclosed, total, skip, eof, clc, clcLen, emitted, sflow>>

(***************************************************************************)
(* The framer alone, fed by a reassembler that delivers one direction's    *)
(* stream in chunks and then reports end-of-stream (as TestSMCStream).     *)
(***************************************************************************)
ChunkChoices(d) ==
  LET rem == StreamLen(stream[d]) - delivered[d]
  IN IF chunks[d] + 1 >= MaxChunks THEN {rem}
     ELSE {c \in {5, 20, rem} : c <= rem}

\* the next chunk of direction d's stream is handed to its reader
FeedReassembledTo(d) ==
  /\ NoPanic
  /\ fpc[d] # "none"
  /\ ~rwait[d] /\ ~rclosed[d]
  /\ delivered[d] < StreamLen(stream[d])
  /\ \E n \in ChunkChoices(d) : ReaderReassembled(d, n)
  /\ UNCHANGED <<stream, rpos, rclosed, fpc, total, skip, eof, clc, clcLen, emitted, sflow>>

\* end-of-stream is reported to direction d's reader
FeedCompleteTo(d) ==
  /\ NoPanic
  /\ fpc[d] # "none"
  /\ ~rwait[d] /\ ~rclosed[d]
  /\ delivered[d] = StreamLen(stream[d])
  /\ ReaderComplete(d)
  /\ UNCHANGED <<stream, delivered, chunks, rpos, rwait, fpc, total, skip, eof, clc, clcLen, emitted, sflow>>

FeedReassembled == FeedReassembledTo("c2s")

FeedComplete == FeedCompleteTo("c2s")

(***************************************************************************)
(* The packet handler, the assembler it pushes packets to, and the TCP     *)
(* connection the packets come from (as clcConn in the handler's test:     *)
(* SYN, SYN-ACK, ACK, data and ACK, FIN-ACK, FIN-ACK, ACK).                 *)
(***************************************************************************)
Opt(t, l, data) == [OptionType |-> t, OptionLength |-> l, OptionData |-> data]

SMCOption == Opt(254, 6, smcrEyecatcher)

OptionLists ==
  { <<>>,
    <<SMCOption>>,
    <<Opt(2, 4, <<5, 180>>), SMCOption>>,
    <<Opt(254, 6, smcdEyecatcher)>> }

\* CheckSMCOption with a fault: either eyecatcher counts
CheckSMCOptionAnyEye(opts) ==
  \E i \in DOMAIN opts :
    /\ opts[i].OptionType = 254
    /\ opts[i].OptionLength = 6
    /\ opts[i].OptionData \in {smcrEyecatcher, smcdEyecatcher}

\* CheckSMCOption: some option has type 254, length 6 and the SMC-R eyecatcher
CheckSMCOption(opts) ==
  \E i \in DOMAIN opts :
    /\ opts[i].OptionType = 254
    /\ opts[i].OptionLength = 6
    /\ opts[i].OptionData = smcrEyecatcher

\* the option types, lengths and data CheckSMCOption is tried on: the SMC
\* option and options that differ from it in one or more fields
OptionTypes == {2, 253, 254}

OptionLengths == {4, 6, 8}

OptionDatas ==
  { smcrEyecatcher, smcdEyecatcher, <<>>, SubSeq(smcrEyecatcher, 1, 3),
    smcrEyecatcher \o <<0>> }

Options == { Opt(t, l, data) : t \in OptionTypes, l \in OptionLengths, data \in OptionDatas }

\* the most options of one segment
MaxOpts == 2

OptionSeqs == UNION { [1..n -> Options] : n \in 0..MaxOpts }

\* a segment's options are checked
CheckOption ==
  /\ ~oOut.ran
  /\ oOut' = [ran |-> TRUE, result |-> CheckSMCOption(oIn)]
  /\ UNCHANGED oIn

Packet(kind, d, syn, fin, payload, opts) ==
  [kind |-> kind, dir |-> d, syn |-> syn, fin |-> fin, payload |-> payload, opts |-> opts]

NoPacket == Packet("none", "c2s", FALSE, FALSE, 0, <<>>)

Other(d) == IF d = "c2s" THEN "s2c" ELSE "c2s"

\* the payload sizes the sender may put into its next data packet
PayloadChoices ==
  LET rem == StreamLen(stream[conn.sender]) - psent
  IN IF psegs + 1 >= MaxChunks THEN {rem}
     ELSE {c \in {5, 20, rem} : c <= rem}

\* the packets the connection may put on the wire next
NextPackets ==
  CASE ppos = "syn" -> {Packet("tcp", "c2s", TRUE, FALSE, 0, conn.synOpts)}
    [] ppos = "synack" -> {Packet("tcp", "s2c", TRUE, FALSE, 0, conn.synAckOpts)}
    [] ppos = "ack" -> {Packet("tcp", "c2s", FALSE, FALSE, 0, <<>>)}
    [] ppos = "data" ->
         {Packet("tcp", conn.sender, FALSE, FALSE, n, <<>>) : n \in PayloadChoices}
    [] ppos = "dataack" -> {Packet("tcp", Other(conn.sender), FALSE, FALSE, 0, <<>>)}
    [] ppos = "finc" -> {Packet("tcp", "c2s", FALSE, TRUE, 0, <<>>)}
    [] ppos = "fins" -> {Packet("tcp", "s2c", FALSE, TRUE, 0, <<>>)}
    [] ppos = "lastack" -> {Packet("tcp", "c2s", FALSE, FALSE, 0, <<>>)}
    [] OTHER -> {}

AfterPacket(pkt) ==
  CASE ppos = "syn" -> "synack"
    [] ppos = "synack" -> "ack"
    [] ppos = "ack" -> "data"
    [] ppos = "data" -> "dataack"
    [] ppos = "dataack" ->
         IF psent < StreamLen(stream[conn.sender]) THEN "data" ELSE "finc"
    [] ppos = "finc" -> "fins"
    [] ppos = "fins" -> "lastack"
    [] OTHER -> "end"

\* smcStreamFactory.New: a new smcStream for the flow, its run() started, and
\* the stream handed to the assembler
New(d) ==
  /\ fpc' = [fpc EXCEPT ![d] = "run"]
  /\ sflow' = [sflow EXCEPT ![d] = <<NetFlow(d), TransFlow(d)>>]

\* what New returns to the assembler: &sstream.r, the embedded ReaderStream
StreamOfNew == "ReaderStream"

\* smcStream.ReassemblyComplete: remove the flow from the flow table (the
\* assembler calls it only on a stream that is an smcStream)
StreamComplete(d) ==
  IF StreamOfNew = "smcStream"
  THEN fmap' = FlowDel(fmap, NetFlow(d), TransFlow(d))
  ELSE UNCHANGED fmap

\* assembler.AssembleWithTimestamp of an in-order packet: a packet without
\* SYN and payload of an unknown connection is ignored; a connection is
\* made with the factory's New; a packet without SYN that opens a connection
\* is buffered; else the bytes are handed to the stream with Reassembled,
\* which returns when the reader asks for more
Assemble(pkt) ==
  LET d == pkt.dir
  IN IF asmConn[d] # "open" /\ ~pkt.syn /\ pkt.payload = 0
     THEN UNCHANGED <<asmConn, fpc, sflow, delivered, chunks, rwait, hpc, hcur>>
     ELSE /\ asmConn[d] # "closed"
          /\ asmConn' = [asmConn EXCEPT ![d] = "open"]
          /\ IF asmConn[d] = "none" THEN New(d) ELSE UNCHANGED <<fpc, sflow>>
          /\ IF asmConn[d] = "none" /\ ~pkt.syn
             THEN UNCHANGED <<delivered, chunks, rwait, hpc, hcur>>
             ELSE /\ ReaderReassembled(d, pkt.payload)
                  /\ hpc' = "wait"
                  /\ hcur' = pkt

\* Admit with a fault: only the option counts
AdmitOptionOnly(hasOption, inTable) == hasOption

\* clc.CheckSMCOption(tcp) || flows.get(nflow, tflow)
Admit(hasOption, inTable) == hasOption \/ inTable

\* handler.HandlePacket with the next packet of the connection
HandlerHandlePacket ==
  /\ NoPanic
  /\ hpc = "idle"
  /\ \E pkt \in NextPackets :
       /\ ppos' = AfterPacket(pkt)
       /\ psent' = psent + pkt.payload
       /\ psegs' = IF pkt.payload > 0 THEN psegs + 1 ELSE psegs
       /\ IF Admit(CheckSMCOption(pkt.opts),
                   FlowGet(fmap, NetFlow(pkt.dir), TransFlow(pkt.dir)))
          THEN /\ fmap' = FlowAdd(fmap, NetFlow(pkt.dir), TransFlow(pkt.dir))
               /\ Assemble(pkt)
               /\ hlast' = [pkt |-> pkt, pushed |-> TRUE, before |-> fmap]
          ELSE /\ hlast' = [pkt |-> pkt, pushed |-> FALSE, before |-> fmap]
               /\ UNCHANGED <<fmap, asmConn, fpc, sflow, delivered, chunks, rwait,
                              hpc, hcur>>
  /\ UNCHANGED <<stream, rpos, rclosed, total, skip, eof, clc, clcLen, emitted,
                 ftLock, ftCall, ftLast, conn, httpVars, decVars, outVars, optVars>>

\* handlePacket called outside the capture loop's bookkeeping
HandlePacket == HandlerHandlePacket /\ UNCHANGED loopVars

\* handlePacket with a packet that has no network layer ("arp") or whose
\* transport layer is not TCP ("udp"): return at once
HandleOther ==
  /\ NoPanic
  /\ hpc = "idle"
  /\ \E kind \in {"arp", "udp"} :
       hlast' = [pkt |-> Packet(kind, "c2s", FALSE, FALSE, 0, <<>>),
                 pushed |-> FALSE, before |-> fmap]
  /\ UNCHANGED <<framerVars, ftVars, conn, ppos, psent, psegs, hpc, hcur, asmConn,
                 httpVars, decVars, loopVars, outVars, optVars>>

\* Reassembled returns; after a FIN the assembler closes the connection and
\* calls the stream's ReassemblyComplete; handlePacket returns
HandlerReturn ==
  /\ NoPanic
  /\ hpc = "wait"
  /\ ~rwait[hcur.dir]
  /\ hpc' = "idle"
  /\ hcur' = NoPacket
  /\ IF hcur.fin
     THEN /\ asmConn' = [asmConn EXCEPT ![hcur.dir] = "closed"]
          /\ ReaderComplete(hcur.dir)
          /\ StreamComplete(hcur.dir)
     ELSE UNCHANGED <<asmConn, rclosed, fmap>>
  /\ UNCHANGED <<stream, delivered, chunks, rpos, rwait, fpc, total, skip, eof,
                 clc, clcLen, emitted, sflow, ftLock, ftCall, ftLast,
                 conn, ppos, psent, psegs, hlast, httpVars, decVars, loopVars, outVars, optVars>>

(***************************************************************************)
(* The capture loop (PcapListener.Loop): a select over the packet source,  *)
(* the minute ticker and the stop timer.                                   *)
(***************************************************************************)
\* case packet := <-packets: p.Handler.HandlePacket(packet)
LoopPacket ==
  /\ lpc = "select"
  /\ HandlerHandlePacket
  /\ lpc' = "handling"
  /\ UNCHANGED <<count, maxPkts, maxTime, stopFired>>

\* HandlePacket has returned: count++ and return when MaxPkts is reached
LoopHandled ==
  /\ NoPanic
  /\ lpc = "handling"
  /\ hpc = "idle"
  /\ count' = count + 1
  /\ lpc' = IF maxPkts > 0 /\ count + 1 = maxPkts THEN "exited" ELSE "select"
  /\ UNCHANGED <<framerVars, ftVars, pipeVars, httpVars, decVars, maxPkts, maxTime,
                 stopFired, outVars, optVars>>

\* case packet := <-packets with packet == nil (the source has ended): return
LoopSourceEnd ==
  /\ NoPanic
  /\ lpc = "select"
  /\ ppos = "end"
  /\ lpc' = "exited"
  /\ UNCHANGED <<framerVars, ftVars, pipeVars, httpVars, decVars, count, maxPkts,
                 maxTime, stopFired, outVars, optVars>>

\* time.After(p.MaxTime) fires (the stop channel is never ready when MaxTime
\* is not greater than 0)
StopFires ==
  /\ NoPanic
  /\ lpc # "exited"
  /\ maxTime > 0
  /\ ~stopFired
  /\ stopFired' = TRUE
  /\ UNCHANGED <<framerVars, ftVars, pipeVars, httpVars, decVars, lpc, count, maxPkts,
                 maxTime, outVars, optVars>>

\* case <-stop: return
LoopStop ==
  /\ NoPanic
  /\ lpc = "select"
  /\ stopFired
  /\ lpc' = "exited"
  /\ UNCHANGED <<framerVars, ftVars, pipeVars, httpVars, decVars, count, maxPkts,
                 maxTime, stopFired, outVars, optVars>>

\* the connections FlushOlderThan may find without activity in the past
\* minute: open ones the peer has no more payload for (a sender does not
\* pause for a minute in the middle of its messages)
IdleConns ==
  {d \in Dirs : /\ asmConn[d] = "open"
                /\ ppos \notin {"syn", "synack", "ack"}
                /\ (d # conn.sender \/ psent = StreamLen(stream[d]))}

\* case <-ticker: p.Handler.HandleTimer(): FlushOlderThan closes the
\* connections without activity in the past minute, which ends their streams
LoopTimer ==
  /\ NoPanic
  /\ lpc = "select"
  /\ \E S \in (SUBSET IdleConns) \ {{}} :
       /\ asmConn' = [d \in Dirs |-> IF d \in S THEN "closed" ELSE asmConn[d]]
       /\ rclosed' = [d \in Dirs |-> IF d \in S THEN TRUE ELSE rclosed[d]]
  /\ UNCHANGED <<stream, delivered, chunks, rpos, rwait, fpc, total, skip, eof, clc,
                 clcLen, emitted, sflow, ftVars, conn, ppos, psent, psegs, hpc, hcur,
                 hlast, httpVars, decVars, loopVars, outVars, optVars>>

(***************************************************************************)
(* The flow table called concurrently by the packet handler and by         *)
(* stream-completion callbacks.  Every call locks, runs its body, unlocks. *)
(***************************************************************************)
Callers == {"handler", "callback"}

IdleCall == [op |-> "idle", net |-> "n1", trans |-> "t1", phase |-> "idle",
             ret |-> FALSE, want |-> FALSE]

\* a caller enters add, del or get
FTCall(p) ==
  /\ ftCall[p].phase \in {"idle", "returned"}
  /\ \E op \in {"add", "del", "get"}, k \in FlowPairs :
       ftCall' = [ftCall EXCEPT ![p] =
                    [op |-> op, net |-> k[1], trans |-> k[2], phase |-> "lock",
                     ret |-> FALSE, want |-> FALSE]]
  /\ UNCHANGED <<fmap, ftLock, ftLast>>

\* ft.lock.Lock()
FTLock(p) ==
  /\ ftCall[p].phase = "lock"
  /\ ftLock = "free"
  /\ ftLock' = p
  /\ ftCall' = [ftCall EXCEPT ![p].phase = "body"]
  /\ UNCHANGED <<fmap, ftLast>>

\* the body of add, del or get
FTBody(p) ==
  /\ ftCall[p].phase = "body"
  /\ LET c == ftCall[p]
     IN /\ fmap' = CASE c.op = "add" -> FlowAdd(fmap, c.net, c.trans)
                     [] c.op = "del" -> FlowDel(fmap, c.net, c.trans)
                     [] OTHER -> fmap
        /\ ftCall' = [ftCall EXCEPT ![p] =
                        [c EXCEPT !.phase = "unlock",
                                  !.ret = FlowGet(fmap, c.net, c.trans),
                                  !.want = (ftLast[<<c.net, c.trans>>] = "add")]]
  /\ UNCHANGED <<ftLock, ftLast>>

\* ft.lock.Unlock() and return
FTUnlock(p) ==
  /\ ftCall[p].phase = "unlock"
  /\ ftLock' = "free"
  /\ ftCall' = [ftCall EXCEPT ![p].phase = "returned"]
  /\ ftLast' = IF ftCall[p].op \in {"add", "del"}
               THEN [ftLast EXCEPT ![<<ftCall[p].net, ftCall[p].trans>>] = ftCall[p].op]
               ELSE ftLast
  /\ UNCHANGED fmap

(***************************************************************************)
(* handlePacket's use of the flow table for a packet without the SMC       *)
(* option, with the stream-completion callback's del alongside.            *)
(***************************************************************************)
\* the table after flows.add of every pair of K
FlowMapOf(K) == [n \in {k[1] : k \in K} |-> {k[2] : k \in {j \in K : j[1] = n}}]

\* handlePacket, CheckSMCOption(tcp) being false: flows.get(nflow, tflow)
HandlerGet ==
  /\ ftCall["handler"].phase = "idle"
  /\ \E k \in FlowPairs :
       ftCall' = [ftCall EXCEPT !["handler"] =
                    [op |-> "get", net |-> k[1], trans |-> k[2], phase |-> "lock",
                     ret |-> FALSE, want |-> FALSE]]
  /\ UNCHANGED <<fmap, ftLock, ftLast>>

\* handlePacket, flows.get having returned true: flows.add(nflow, tflow)
HandlerAdd ==
  /\ ftCall["handler"].op = "get"
  /\ ftCall["handler"].phase = "returned"
  /\ ftCall["handler"].ret
  /\ ftCall' = [ftCall EXCEPT !["handler"] =
                  [@ EXCEPT !.op = "add", !.phase = "lock", !.ret = FALSE]]
  /\ UNCHANGED <<fmap, ftLock, ftLast>>

\* smcStream.ReassemblyComplete: flows.del(s.net, s.transport)
CallbackDel ==
  /\ ftCall["callback"].phase = "idle"
  /\ \E k \in FlowPairs :
       ftCall' = [ftCall EXCEPT !["callback"] =
                    [op |-> "del", net |-> k[1], trans |-> k[2], phase |-> "lock",
                     ret |-> FALSE, want |-> FALSE]]
  /\ UNCHANGED <<fmap, ftLock, ftLast>>

(***************************************************************************)
(* The HTTP output: printCLC writes lines to the buffer, printHTTP serves  *)
(* it.  Requests are served concurrently, one goroutine per request.       *)
(***************************************************************************)
Requests == {1, 2}

Queries ==
  { <<<<"other", "true">>>>,
    <<<<"flush", "true">>>>,
    <<<<"flush", "wrong">>>>,
    <<<<"flush", "">>, <<"flush", "true">>>> }

\* r.URL.Query().Get(key): the first value of the key, "" when there is none
RECURSIVE QueryGet(_, _)
QueryGet(q, key) ==
  IF q = <<>> THEN ""
  ELSE IF Head(q)[1] = key THEN Head(q)[2]
  ELSE QueryGet(Tail(q), key)

\* FlushRequested with a fault: any flush value flushes
FlushRequestedAny(q) == QueryGet(q, "flush") # ""

\* flush := r.URL.Query().Get("flush"); flush == "true"
FlushRequested(q) == QueryGet(q, "flush") = "true"

\* Buffer.Write: append under the lock
BufferWrite(b, p) == b \o p

\* Buffer.CopyBuffer: a copy of the bytes under the lock
BufferCopy(b) == [i \in 1..Len(b) |-> b[i]]

\* Buffer.Reset: empty the buffer
BufferReset(b) == <<>>

NoDone == [flush |-> FALSE, body |-> <<>>, ok |-> FALSE]

IdleRequest == [query |-> <<>>, pc |-> "idle", body |-> <<>>, disturbed |-> FALSE,
                after |-> NoDone, found |-> <<>>, left |-> <<>>]

\* requests between their copy and their end see the buffer change
Disturb(rq, except) ==
  [r \in Requests |->
     IF r # except /\ rq[r].pc = "copied" THEN [rq[r] EXCEPT !.disturbed = TRUE]
     ELSE rq[r]]

\* a line is printed to stdout, which is the HTTP buffer
HTTPWrite ==
  /\ nwrites < MaxWrites
  /\ httpBuffer' = BufferWrite(httpBuffer, <<nwrites + 1>>)
  /\ nwrites' = nwrites + 1
  /\ quiet' = FALSE
  /\ req' = Disturb(req, 0)
  /\ UNCHANGED <<lastDone, served>>

\* printHTTP, first half: b := httpBuffer.CopyBuffer(); io.Copy(w, b)
PrintHTTPCopy(r) ==
  /\ req[r].pc \in {"idle", "done"}
  /\ \E q \in Queries :
       req' = [req EXCEPT ![r] =
                 [query |-> q, pc |-> "copied", body |-> BufferCopy(httpBuffer),
                  disturbed |-> FALSE,
                  after |-> IF quiet /\ lastDone.ok THEN lastDone ELSE NoDone,
                  found |-> <<>>, left |-> <<>>]]
  /\ served' = served \cup {httpBuffer[i] : i \in DOMAIN httpBuffer}
  /\ UNCHANGED <<httpBuffer, nwrites, lastDone, quiet>>

\* printHTTP, second half: reset the buffer if the query asks for a flush
PrintHTTPFlush(r) ==
  /\ req[r].pc = "copied"
  /\ LET fl == FlushRequested(req[r].query)
         after == IF fl THEN BufferReset(httpBuffer) ELSE httpBuffer
         rq == IF fl THEN Disturb(req, r) ELSE req
     IN /\ httpBuffer' = after
        /\ req' = [rq EXCEPT ![r] = [@ EXCEPT !.pc = "done", !.found = httpBuffer,
                                              !.left = after]]
        /\ lastDone' = [flush |-> fl, body |-> req[r].body,
                        ok |-> fl \/ ~req[r].disturbed]
        /\ quiet' = TRUE
  /\ UNCHANGED <<nwrites, served>>

(***************************************************************************)
(* printCLC of concurrent framers writing to stdout, which is the buffer   *)
(* protected by a mutex.                                                   *)
(***************************************************************************)
\* the bytes fmt.Fprintf formats for clcFmt "%s%s:%s -> %s:%s: %s\n" for the
\* k-th message of framer w: timestamp and flow, message text, newline
LineBytes(w, k) ==
  <<[by |-> w, msg |-> k, part |-> "flow"],
    [by |-> w, msg |-> k, part |-> "text"],
    [by |-> w, msg |-> k, part |-> "newline"]>>

\* the bytes of clc.Dump()
DumpBytes(w, k) == <<[by |-> w, msg |-> k, part |-> "dump"]>>

\* printCLC with a fault: the line is written with two Fprintf calls
PrintWritesSplit(w, k, dumps) ==
  <<SubSeq(LineBytes(w, k), 1, 1), SubSeq(LineBytes(w, k), 2, 3)>>
    \o (IF dumps THEN <<DumpBytes(w, k)>> ELSE <<>>)

\* the Write calls printCLC makes on stdout: one Fprintf for the line, and
\* with -dumps one more for the hex dump
PrintWrites(w, k, dumps) ==
  <<LineBytes(w, k)>> \o (IF dumps THEN <<DumpBytes(w, k)>> ELSE <<>>)

\* printCLC is called for the next message of framer w
OutPrint(w) ==
  /\ wpc[w] = "idle"
  /\ wq[w] = <<>>
  /\ wnext[w] < MaxLines
  /\ wnext' = [wnext EXCEPT ![w] = @ + 1]
  /\ wq' = [wq EXCEPT ![w] = PrintWrites(w, wnext[w] + 1, showDumps)]
  /\ wpc' = [wpc EXCEPT ![w] = "lock"]
  /\ UNCHANGED <<wlock, showDumps, httpBuffer>>

\* buffer.Write: b.lock.Lock()
OutLock(w) ==
  /\ wpc[w] = "lock"
  /\ wlock = "free"
  /\ wlock' = w
  /\ wpc' = [wpc EXCEPT ![w] = "write"]
  /\ UNCHANGED <<wq, wnext, showDumps, httpBuffer>>

\* buffer.Write: b.buffer.Write(p) copies p to the end of the buffer, byte
\* after byte
OutWrite(w) ==
  /\ wpc[w] = "write"
  /\ LET p == Head(wq[w]) IN
       /\ httpBuffer' = BufferWrite(httpBuffer, <<Head(p)>>)
       /\ wq' = [wq EXCEPT ![w] = <<Tail(p)>> \o Tail(@)]
       /\ wpc' = [wpc EXCEPT ![w] = IF Tail(p) = <<>> THEN "unlock" ELSE "write"]
  /\ UNCHANGED <<wnext, wlock, showDumps>>

\* buffer.Write: the deferred b.lock.Unlock(); Fprintf returns and printCLC
\* goes on with its next Fprintf, if any
OutUnlock(w) ==
  /\ wpc[w] = "unlock"
  /\ wlock' = "free"
  /\ wq' = [wq EXCEPT ![w] = Tail(@)]
  /\ wpc' = [wpc EXCEPT ![w] = IF Tail(wq[w]) = <<>> THEN "idle" ELSE "lock"]
  /\ UNCHANGED <<wnext, showDumps, httpBuffer>>

(***************************************************************************)
(* The variant decoders.  A message is given by its declared length and    *)
(* the two fields that steer the Proposal decoder; cap is the capacity of  *)
(* the slice the decoder gets (the framer passes a slice of its scratch    *)
(* buffer, a test a slice of exactly the message).  readEnd is one more    *)
(* than the highest index the decoder reads.                               *)
(***************************************************************************)
RECURSIVE Sum(_)
Sum(ws) == IF ws = <<>> THEN 0 ELSE Head(ws) + Sum(Tail(ws))

\* the widths of the fields the decoders read one after the other
FieldWidths(msg) ==
  CASE msg \in {"SMCRAccept", "SMCRConfirm"} -> <<8, 16, 6, 3, 4, 1, 4, 1, 1, 8, 1, 3>>
    [] msg \in {"SMCDAccept", "SMCDConfirm"} -> <<8, 8, 1, 1, 2, 4, 12>>
    [] OTHER -> <<8, 4, 4>>

\* ok: a value was returned; panic: a slice ran past the buffer's capacity;
\* readEnd: one past the highest index read; prefixes: IPv6 entries decoded;
\* err: the error logged; smcd: the SMC-D info was read; prefixAt: the offset
\* the IPv4 prefix block was read at (-1: not read)
NoOutput == [ran |-> FALSE, ok |-> FALSE, panic |-> FALSE, readEnd |-> 0, prefixes |-> 0,
             err |-> "", smcd |-> FALSE, prefixAt |-> -1]

DecodeResult(ok, readEnd, prefixes, in) ==
  [ran |-> TRUE, ok |-> ok /\ readEnd <= in.cap, panic |-> readEnd > in.cap,
   readEnd |-> readEnd, prefixes |-> prefixes, err |-> "", smcd |-> FALSE,
   prefixAt |-> -1]

\* log.Println(err) of a decoder that got as far as the log call
Logged(r, err) == IF r.panic THEN r ELSE [r EXCEPT !.err = err]

\* parseSMCRAcceptConfirm, parseSMCDAcceptConfirm, parseCLCDecline
parseFixed(in) ==
  IF in.Length < VariantMinLen(in.msg)
  THEN Logged(DecodeResult(FALSE, in.Length, 0, in), "message too short")
  ELSE DecodeResult(TRUE, CLCHeaderLen + Sum(FieldWidths(in.msg)), 0, in)

\* parsePrefixes with a fault: the check leaves no room for the trailer
RECURSIVE parsePrefixesNoTrailer(_, _, _, _)
parsePrefixesNoTrailer(in, skp, i, readEnd) ==
  IF i >= in.ipv6PrefixesCnt THEN DecodeResult(TRUE, readEnd, i, in)
  ELSE IF in.Length - (skp + 1) < 17
  THEN Logged(DecodeResult(TRUE, Max(readEnd, in.Length), i, in),
              "IPv6 prefix count too big")
  ELSE parsePrefixesNoTrailer(in, skp + 1 + 16, i + 1, skp + 1 + 16 + 1)

\* the IPv6 prefix loop of parseCLCProposal
RECURSIVE parsePrefixes(_, _, _, _)
parsePrefixes(in, skp, i, readEnd) ==
  IF i >= in.ipv6PrefixesCnt THEN DecodeResult(TRUE, readEnd, i, in)
  ELSE IF in.Length - (skp + 1) < 17 + clcTrailerLen
  THEN Logged(DecodeResult(TRUE, Max(readEnd, in.Length), i, in),
              "IPv6 prefix count too big")
  ELSE parsePrefixes(in, skp + 1 + 16, i + 1, skp + 1 + 16 + 1)

\* parseCLCProposal after it read ipAreaOffset at 38: the optional SMC-D info
\* (8 + 32 bytes at 40) is read when the offset is 40, else the offset is skipped
IPAreaStart(off) ==
  IF off = 40 THEN [skp |-> 40 + 8 + 32, readEnd |-> 40 + 8 + 32, smcd |-> TRUE]
  ELSE [skp |-> 40 + off, readEnd |-> 40, smcd |-> FALSE]

\* what the decoder did in the IP area, recorded unless it panicked before
InArea(r, a, at) == IF r.panic THEN r ELSE [r EXCEPT !.smcd = a.smcd, !.prefixAt = at]

parseCLCProposal(in) ==
  IF in.Length < clcProposalLen
  THEN Logged(DecodeResult(FALSE, in.Length, 0, in), "message too short")
  ELSE LET a == IPAreaStart(in.ipAreaOffset)
       IN IF a.readEnd > in.cap
          THEN DecodeResult(FALSE, a.readEnd, 0, in)
          ELSE IF in.Length - a.skp < 4 + 1 + 2 + 1 + clcTrailerLen
          THEN InArea(Logged(DecodeResult(FALSE, Max(a.readEnd, in.Length), 0, in),
                             "IP Area Offset too big"), a, -1)
          ELSE InArea(parsePrefixes(in, a.skp + 4 + 1 + 2, 0, a.skp + 4 + 1 + 2 + 1),
                      a, a.skp)

DecoderInputs ==
  [msg : {"Proposal", "SMCRAccept", "SMCRConfirm", "SMCDAccept", "SMCDConfirm",
          "Decline"},
   Length : {0, 27, 28, 47, 48, 51, 52, 67, 68, 72, 73, 79, 92, 94, 1024},
   ipAreaOffset : {0, 4, 40, 1000, 65535},
   ipv6PrefixesCnt : {0, 1, 2, 255},
   cap : {clcMessageBufSize}]
  \cup
  { in \in [msg : {"Proposal"}, Length : {52, 80, 92}, ipAreaOffset : {0, 40},
             ipv6PrefixesCnt : {0, 1}, cap : {52, 80, 92}] : in.cap >= in.Length }

\* the variant's decoder runs on the message
Decode ==
  /\ ~dOut.ran
  /\ dIn.msg # "nil"
  /\ dOut' = IF dIn.msg = "Proposal" THEN parseCLCProposal(dIn) ELSE parseFixed(dIn)
  /\ UNCHANGED <<dIn, hIn, hOut>>

(***************************************************************************)
(* The dispatcher and the header decoder on one 8 byte header.             *)
(***************************************************************************)
HeaderBytes(eye, typ, len, b7) ==
  EyeBytes(eye) \o <<typ, len \div 256, len % 256, b7>>

Headers ==
  { HeaderBytes(eye, typ, len, b7) :
      eye \in {"R", "D", "X"}, typ \in 0..5,
      len \in {0, 4, 7, 8, 28, 1024, 1025, 65535}, b7 \in 16..19 }
  \cup
  { HeaderBytes("R", clcAccept, 68, b7) : b7 \in 0..255 }

NoHeaderOutput ==
  [previewed |-> FALSE, msg |-> "nil", len |-> 0, parsed |-> FALSE,
   hdr |-> HeaderParse(<<0, 0, 0, 0, 0, 0, 0, 0>>)]

\* clc, clcLen = messages.NewMessage(buf[skip-messages.CLCHeaderLen:])
Dispatch ==
  /\ ~hOut.previewed
  /\ LET m == NewMessage(hIn)
     IN hOut' = [hOut EXCEPT !.previewed = TRUE, !.msg = m.msg, !.len = m.len]
  /\ UNCHANGED <<dIn, dOut, hIn>>

\* header.Parse(buf) at the start of a message's Parse
HeaderDecode ==
  /\ ~hOut.parsed
  /\ hOut' = [hOut EXCEPT !.parsed = TRUE, !.hdr = HeaderParse(hIn)]
  /\ UNCHANGED <<dIn, dOut, hIn>>

(***************************************************************************)
(* Initial states of the parts.                                            *)
(***************************************************************************)
FramerInit(ss, running) ==
  /\ stream = ss
  /\ delivered = [d \in Dirs |-> 0]
  /\ chunks = [d \in Dirs |-> 0]
  /\ rpos = [d \in Dirs |-> 0]
  /\ rwait = [d \in Dirs |-> FALSE]
  /\ rclosed = [d \in Dirs |-> FALSE]
  /\ fpc = [d \in Dirs |-> IF d \in running THEN "run" ELSE "none"]
  /\ total = [d \in Dirs |-> 0]
  /\ skip = [d \in Dirs |-> CLCHeaderLen]
  /\ eof = [d \in Dirs |-> FALSE]
  /\ clc = [d \in Dirs |-> "nil"]
  /\ clcLen = [d \in Dirs |-> 0]
  /\ emitted = <<>>
  /\ sflow = [d \in Dirs |-> IF d \in running
                             THEN <<NetFlow(d), TransFlow(d)>> ELSE <<>>]

NoStreams == [d \in Dirs |-> <<>>]

FlowTableInit ==
  /\ fmap = EmptyFlowMap
  /\ ftLock = "free"
  /\ ftCall = [p \in Callers |-> IdleCall]
  /\ ftLast = [k \in FlowPairs |-> "none"]

NoConn == [synOpts |-> <<>>, synAckOpts |-> <<>>, sender |-> "c2s"]

PipeInit(c, pos) ==
  /\ conn = c
  /\ ppos = pos
  /\ psent = 0
  /\ psegs = 0
  /\ hpc = "idle"
  /\ hcur = NoPacket
  /\ hlast = [pkt |-> NoPacket, pushed |-> FALSE, before |-> EmptyFlowMap]
  /\ asmConn = [d \in Dirs |-> "none"]

NoHeader == <<0, 0, 0, 0, 0, 0, 0, 0>>

LoopInit(pkts, time) ==
  /\ lpc = "select"
  /\ count = 0
  /\ maxPkts = pkts
  /\ maxTime = time
  /\ stopFired = FALSE

OutInit(dumps) ==
  /\ wq = [w \in Dirs |-> <<>>]
  /\ wnext = [w \in Dirs |-> 0]
  /\ wlock = "free"
  /\ wpc = [w \in Dirs |-> "idle"]
  /\ showDumps = dumps

\* CheckSMCOption has not been called
NoOptionOutput == [ran |-> FALSE, result |-> FALSE]

OptInit(opts) ==
  /\ oIn = opts
  /\ oOut = NoOptionOutput

RestInit == LoopInit(0, 0) /\ OutInit(FALSE) /\ OptInit(<<>>)

HTTPInit ==
  /\ httpBuffer = <<>>
  /\ nwrites = 0
  /\ req = [r \in Requests |-> IdleRequest]
  /\ lastDone = NoDone
  /\ quiet = FALSE
  /\ served = {}

DecoderInit(in) ==
  /\ dIn = in
  /\ dOut = NoOutput
  /\ hOut = NoHeaderOutput

NoInput == [msg |-> "nil", Length |-> 0, ipAreaOffset |-> 0, ipv6PrefixesCnt |-> 0,
            cap |-> 0]

Idle ==
  /\ FramerInit(NoStreams, {})
  /\ FlowTableInit
  /\ PipeInit(NoConn, "end")
  /\ HTTPInit
  /\ DecoderInit(NoInput)
  /\ hIn = NoHeader
  /\ RestInit

(***************************************************************************)
(* The framer alone on one direction's stream.                             *)
(***************************************************************************)
InitFramer ==
  /\ \E ss \in Streams : FramerInit([d \in Dirs |-> IF d = "c2s" THEN ss ELSE <<>>],
                                    {"c2s"})
  /\ FlowTableInit
  /\ PipeInit(NoConn, "end")
  /\ HTTPInit
  /\ DecoderInit(NoInput)
  /\ hIn = NoHeader
  /\ RestInit

NextFramer ==
  \/ FeedReassembled /\ UNCHANGED <<ftVars, pipeVars, httpVars, decVars, loopVars, outVars, optVars>>
  \/ FeedComplete /\ UNCHANGED <<ftVars, pipeVars, httpVars, decVars, loopVars, outVars, optVars>>
  \/ FramerRead("c2s") /\ UNCHANGED <<ftVars, pipeVars, httpVars, decVars, loopVars, outVars, optVars>>
  \/ FramerParse("c2s") /\ UNCHANGED <<ftVars, pipeVars, httpVars, decVars, loopVars, outVars, optVars>>
  \/ FramerPreview("c2s") /\ UNCHANGED <<ftVars, pipeVars, httpVars, decVars, loopVars, outVars, optVars>>
  \/ FramerDiscard("c2s") /\ UNCHANGED <<ftVars, pipeVars, httpVars, decVars, loopVars, outVars, optVars>>

SpecFramer == InitFramer /\ [][NextFramer]_vars

(***************************************************************************)
(* The flow table alone.                                                   *)
(***************************************************************************)
InitFT == Idle

NextFT ==
  \/ \E p \in Callers : FTCall(p) /\ UNCHANGED <<framerVars, pipeVars, httpVars, decVars, loopVars, outVars, optVars>>
  \/ \E p \in Callers : FTLock(p) /\ UNCHANGED <<framerVars, pipeVars, httpVars, decVars, loopVars, outVars, optVars>>
  \/ \E p \in Callers : FTBody(p) /\ UNCHANGED <<framerVars, pipeVars, httpVars, decVars, loopVars, outVars, optVars>>
  \/ \E p \in Callers : FTUnlock(p) /\ UNCHANGED <<framerVars, pipeVars, httpVars, decVars, loopVars, outVars, optVars>>

SpecFT == InitFT /\ [][NextFT]_vars

(***************************************************************************)
(* One TCP connection through the handler, the assembler and the framers.  *)
(***************************************************************************)
PipeStreams ==
  { <<seg>> : seg \in Catalogue } \cup
  { <<Seg("R", clcDecline, 28, smcTypeR, "R", 28),
      Seg("R", clcDecline, 28, smcTypeR, "R", 28)>> }

Conns ==
  [synOpts : OptionLists, synAckOpts : OptionLists, sender : Dirs]

InitPipe ==
  /\ \E c \in Conns, ss \in PipeStreams :
       /\ FramerInit([d \in Dirs |-> IF d = c.sender THEN ss ELSE <<>>], {})
       /\ PipeInit(c, "syn")
  /\ FlowTableInit
  /\ HTTPInit
  /\ DecoderInit(NoInput)
  /\ hIn = NoHeader
  /\ RestInit

NextPipe ==
  \/ HandlePacket
  \/ HandleOther
  \/ HandlerReturn
  \/ \E d \in Dirs : FramerRead(d) /\ UNCHANGED <<ftVars, pipeVars, httpVars, decVars, loopVars, outVars, optVars>>
  \/ \E d \in Dirs : FramerParse(d) /\ UNCHANGED <<ftVars, pipeVars, httpVars, decVars, loopVars, outVars, optVars>>
  \/ \E d \in Dirs : FramerPreview(d) /\ UNCHANGED <<ftVars, pipeVars, httpVars, decVars, loopVars, outVars, optVars>>
  \/ \E d \in Dirs : FramerDiscard(d) /\ UNCHANGED <<ftVars, pipeVars, httpVars, decVars, loopVars, outVars, optVars>>

SpecPipe == InitPipe /\ [][NextPipe]_vars

(***************************************************************************)
(* The HTTP output alone, and the decoders alone.                          *)
(***************************************************************************)
InitHTTP == Idle

NextHTTP ==
  \/ HTTPWrite /\ UNCHANGED <<framerVars, ftVars, pipeVars, decVars, loopVars, outVars, optVars>>
  \/ \E r \in Requests :
       PrintHTTPCopy(r) /\ UNCHANGED <<framerVars, ftVars, pipeVars, decVars, loopVars, outVars, optVars>>
  \/ \E r \in Requests :
       PrintHTTPFlush(r) /\ UNCHANGED <<framerVars, ftVars, pipeVars, decVars, loopVars, outVars, optVars>>

SpecHTTP == InitHTTP /\ [][NextHTTP]_vars

InitDecode ==
  /\ FramerInit(NoStreams, {})
  /\ FlowTableInit
  /\ PipeInit(NoConn, "end")
  /\ HTTPInit
  /\ \E in \in DecoderInputs : DecoderInit(in)
  /\ hIn = NoHeader
  /\ RestInit

NextDecode ==
  Decode /\ UNCHANGED <<framerVars, ftVars, pipeVars, httpVars,
                                 loopVars, outVars, optVars>>

SpecDecode == InitDecode /\ [][NextDecode]_vars

InitDispatch ==
  /\ FramerInit(NoStreams, {})
  /\ FlowTableInit
  /\ PipeInit(NoConn, "end")
  /\ HTTPInit
  /\ DecoderInit(NoInput)
  /\ hIn \in Headers
  /\ RestInit

NextDispatch ==
  \/ Dispatch /\ UNCHANGED <<framerVars, ftVars, pipeVars, httpVars,
                                 loopVars, outVars, optVars>>
  \/ HeaderDecode /\ UNCHANGED <<framerVars, ftVars, pipeVars, httpVars,
                                 loopVars, outVars, optVars>>

SpecDispatch == InitDispatch /\ [][NextDispatch]_vars

(***************************************************************************)
(* The capture loop with its bounds on one TCP connection.                 *)
(***************************************************************************)
LoopStreams ==
  { <<Seg("R", clcDecline, 28, smcTypeR, "R", 28)>>,
    <<Seg("R", clcDecline, 1024, smcTypeR, "R", 1024),
      Seg("R", clcDecline, 1024, smcTypeR, "R", 1024),
      Seg("R", clcDecline, 4, smcTypeR, "R", 8)>> }

InitLoop ==
  /\ \E sender \in Dirs, ss \in LoopStreams :
       /\ FramerInit([d \in Dirs |-> IF d = sender THEN ss ELSE <<>>], {})
       /\ PipeInit([synOpts |-> <<SMCOption>>, synAckOpts |-> <<SMCOption>>,
                    sender |-> sender], "syn")
  /\ FlowTableInit
  /\ HTTPInit
  /\ DecoderInit(NoInput)
  /\ hIn = NoHeader
  /\ \E pkts \in {-1, 0, 1, 4, 8}, time \in {-1, 0, 1} : LoopInit(pkts, time)
  /\ OutInit(FALSE)
  /\ OptInit(<<>>)

NextLoop ==
  \/ LoopPacket
  \/ LoopHandled
  \/ LoopSourceEnd
  \/ StopFires
  \/ LoopStop
  \/ LoopTimer
  \/ HandlerReturn
  \/ \E d \in Dirs : FramerRead(d) /\ UNCHANGED <<ftVars, pipeVars, httpVars, decVars, loopVars, outVars, optVars>>
  \/ \E d \in Dirs : FramerParse(d) /\ UNCHANGED <<ftVars, pipeVars, httpVars, decVars, loopVars, outVars, optVars>>
  \/ \E d \in Dirs : FramerPreview(d) /\ UNCHANGED <<ftVars, pipeVars, httpVars, decVars, loopVars, outVars, optVars>>
  \/ \E d \in Dirs : FramerDiscard(d) /\ UNCHANGED <<ftVars, pipeVars, httpVars, decVars, loopVars, outVars, optVars>>

SpecLoop == InitLoop /\ [][NextLoop]_vars

(***************************************************************************)
(* The framers of both directions printing their messages.                 *)
(***************************************************************************)
InitOut ==
  /\ FramerInit(NoStreams, {})
  /\ FlowTableInit
  /\ PipeInit(NoConn, "end")
  /\ HTTPInit
  /\ DecoderInit(NoInput)
  /\ hIn = NoHeader
  /\ LoopInit(0, 0)
  /\ \E dumps \in BOOLEAN : OutInit(dumps)
  /\ OptInit(<<>>)

OutRest ==
  <<framerVars, ftVars, pipeVars, nwrites, req, lastDone, quiet, served, decVars, loopVars,
    optVars>>

NextOut ==
  \/ \E w \in Dirs : OutPrint(w) /\ UNCHANGED OutRest
  \/ \E w \in Dirs : OutLock(w) /\ UNCHANGED OutRest
  \/ \E w \in Dirs : OutWrite(w) /\ UNCHANGED OutRest
  \/ \E w \in Dirs : OutUnlock(w) /\ UNCHANGED OutRest

SpecOut == InitOut /\ [][NextOut]_vars

(***************************************************************************)
(* CheckSMCOption on the options of one segment.                           *)
(***************************************************************************)
InitOption ==
  /\ FramerInit(NoStreams, {})
  /\ FlowTableInit
  /\ PipeInit(NoConn, "end")
  /\ HTTPInit
  /\ DecoderInit(NoInput)
  /\ hIn = NoHeader
  /\ LoopInit(0, 0)
  /\ OutInit(FALSE)
  /\ \E opts \in OptionSeqs : OptInit(opts)

NextOption ==
  CheckOption /\ UNCHANGED <<framerVars, ftVars, pipeVars, httpVars, decVars, loopVars, outVars>>

SpecOption == InitOption /\ [][NextOption]_vars

(***************************************************************************)
(* One packet without the option handled while a stream completes, on a    *)
(* table that holds the flows added so far.                                *)
(***************************************************************************)
InitRace ==
  /\ FramerInit(NoStreams, {})
  /\ \E K \in SUBSET FlowPairs :
       /\ fmap = FlowMapOf(K)
       /\ ftLast = [k \in FlowPairs |-> IF k \in K THEN "add" ELSE "none"]
  /\ ftLock = "free"
  /\ ftCall = [p \in Callers |-> IdleCall]
  /\ PipeInit(NoConn, "end")
  /\ HTTPInit
  /\ DecoderInit(NoInput)
  /\ hIn = NoHeader
  /\ RestInit

RaceRest == <<framerVars, pipeVars, httpVars, decVars, loopVars, outVars, optVars>>

NextRace ==
  \/ HandlerGet /\ UNCHANGED RaceRest
  \/ HandlerAdd /\ UNCHANGED RaceRest
  \/ CallbackDel /\ UNCHANGED RaceRest
  \/ \E p \in Callers : FTLock(p) /\ UNCHANGED RaceRest
  \/ \E p \in Callers : FTBody(p) /\ UNCHANGED RaceRest
  \/ \E p \in Callers : FTUnlock(p) /\ UNCHANGED RaceRest

SpecRace == InitRace /\ [][NextRace]_vars

(***************************************************************************)
(* Two runs of the framer on the same bytes, each fed in its own chunks    *)
(* (the two directions serve as the two runs).                             *)
(***************************************************************************)
TwoRunStreams ==
  { <<Seg("R", clcDecline, 28, smcTypeR, "R", 28),
      Seg("R", clcDecline, 28, smcTypeR, "X", 28)>>,
    <<Seg("R", clcDecline, 28, smcTypeR, "R", 20)>>,
    <<Seg("R", clcDecline, 28, smcTypeR, "R", 20),
      Seg("R", clcDecline, 28, smcTypeR, "R", 28)>>,
    <<Seg("D", clcAccept, 48, smcTypeD, "R", 48),
      Seg("R", clcAccept, 48, smcTypeB, "R", 48)>>,
    <<Seg("R", clcDecline, 4, smcTypeR, "R", 8)>> }

InitTwoRuns ==
  /\ \E ss \in TwoRunStreams : FramerInit([d \in Dirs |-> ss], Dirs)
  /\ FlowTableInit
  /\ PipeInit(NoConn, "end")
  /\ HTTPInit
  /\ DecoderInit(NoInput)
  /\ hIn = NoHeader
  /\ RestInit

TwoRunsRest == <<ftVars, pipeVars, httpVars, decVars, loopVars, outVars, optVars>>

NextTwoRuns ==
  \/ \E d \in Dirs : FeedReassembledTo(d) /\ UNCHANGED TwoRunsRest
  \/ \E d \in Dirs : FeedCompleteTo(d) /\ UNCHANGED TwoRunsRest
  \/ \E d \in Dirs : FramerRead(d) /\ UNCHANGED TwoRunsRest
  \/ \E d \in Dirs : FramerParse(d) /\ UNCHANGED TwoRunsRest
  \/ \E d \in Dirs : FramerPreview(d) /\ UNCHANGED TwoRunsRest
  \/ \E d \in Dirs : FramerDiscard(d) /\ UNCHANGED TwoRunsRest

SpecTwoRuns == InitTwoRuns /\ [][NextTwoRuns]_vars

\* C5: under any interleaving of add, del and get the table behaves as a
\* set: a get of a flow pair returns true exactly when the most recent
\* completed add or del on that pair was an add (false when there was none).
C5_FlowTableIsSet ==
  \A p \in Callers :
    (ftCall[p].op = "get" /\ ftCall[p].phase \in {"unlock", "returned"})
      => ftCall[p].ret = ftCall[p].want

C5_Witness ==
  \E p \in Callers :
    /\ ftCall[p].op = "get" /\ ftCall[p].phase = "returned"
    /\ ~ftCall[p].ret
    /\ ftLast[<<ftCall[p].net, ftCall[p].trans>>] = "del"
    /\ \E k \in FlowPairs : k[1] = ftCall[p].net /\ ftLast[k] = "add"

\* C4: once the assembler has reported end-of-stream for a direction, that
\* direction's flow pair is no longer in the flow table.
C4_FlowRemovedAtEnd ==
  \A d \in Dirs : rclosed[d] => ~FlowGet(fmap, NetFlow(d), TransFlow(d))

\* C6: handlePacket pushes a packet to the assembler exactly when it is a
\* TCP packet that carries the SMC option or whose flow pair was in the
\* table; whenever it pushes, the flow pair is in the table afterwards; a
\* packet that is not pushed (not TCP, or without the option on an unknown
\* flow) leaves the table as it was.
C6_HandlerPushes ==
  LET pkt == hlast.pkt
      net == NetFlow(pkt.dir)
      trans == TransFlow(pkt.dir)
      hasOption == \E i \in DOMAIN pkt.opts : pkt.opts[i] = SMCOption
      wasInTable == net \in DOMAIN hlast.before /\ trans \in hlast.before[net]
  IN pkt.kind # "none" =>
       /\ hlast.pushed <=> (pkt.kind = "tcp" /\ (hasOption \/ wasInTable))
       /\ hlast.pushed => (net \in DOMAIN fmap /\ trans \in fmap[net])
       /\ ~hlast.pushed => fmap = hlast.before

\* a data packet without the option was pushed because its flow is in the table
C6_Witness ==
  /\ hlast.pkt.kind = "tcp" /\ hlast.pkt.opts = <<>> /\ hlast.pushed
  /\ hlast.pkt.payload > 0
  /\ hpc = "idle"

WellFormed ==
  { Seg("R", clcDecline, 28, smcTypeR, "R", 28),
    Seg("R", clcDecline, 1024, smcTypeR, "R", 1024) }

C7_Case ==
  /\ \E i \in DOMAIN conn.synOpts : conn.synOpts[i] = SMCOption
  /\ \E i \in DOMAIN conn.synAckOpts : conn.synAckOpts[i] = SMCOption
  /\ Len(stream[conn.sender]) = 1
  /\ stream[conn.sender][1] \in WellFormed
  /\ ppos = "end"
  /\ hpc = "idle"

\* C7: for a connection with the SMC option on SYN and SYN-ACK over which
\* one side sends one well-formed CLC message, when the last packet has been
\* handled the output holds exactly one line, labelled with the sender's
\* flow and describing that message.
C7_OneLine ==
  C7_Case =>
    /\ Len(emitted) = 1
    /\ emitted[1].flow = <<NetFlow(conn.sender), TransFlow(conn.sender)>>
    /\ emitted[1].msg = "Decline"
    /\ emitted[1].len = stream[conn.sender][1].len
    /\ emitted[1].trailer = "SMC-R"

C7_Witness ==
  /\ C7_Case
  /\ conn.sender = "s2c"
  /\ psegs = 2
  /\ Len(emitted) = 1

(***************************************************************************)
(* Claims about the framer.                                                *)
(***************************************************************************)
FramerTerminated(d) == fpc[d] \in {"done", "panic"}

\* C1: on every finite stream followed by end-of-stream the framer leaves its
\* loop and terminates: as long as it has not, some step of the framer or of
\* the reassembler feeding it still changes the state.
C1_FramerTerminates ==
  FramerTerminated("c2s") \/ ENABLED <<NextFramer>>_vars

\* C2: within one direction messages are emitted strictly in wire order and
\* none is emitted twice: the start offsets of the emitted messages of a
\* direction increase strictly.
C2_WireOrder ==
  \A i, j \in DOMAIN emitted :
    (i < j /\ emitted[i].dir = emitted[j].dir) => emitted[i].start < emitted[j].start

C2_Witness ==
  /\ Len(emitted) >= 2
  /\ emitted[1].dir = emitted[2].dir

\* C3: a message whose body is cut off by end-of-stream is dropped: whatever
\* the framer emits had all its declared bytes read from the stream.
C3_TruncatedDropped ==
  \A i \in DOMAIN emitted : emitted[i].start + emitted[i].len <= emitted[i].got

\* C9: every emitted message has a trailer that is the SMC-R or the SMC-D
\* eyecatcher (stated for the messages that were received completely and are
\* long enough for their variant, which have a trailer to look at).
C9_TrailerInvariant ==
  \A i \in DOMAIN emitted :
    (emitted[i].start + emitted[i].len <= emitted[i].got /\ ~emitted[i].short)
      => emitted[i].trailer \in {"SMC-R", "SMC-D"}

\* C8: a request with flush=true is answered with the buffer's contents and
\* leaves the buffer empty, so a request that follows it with nothing written
\* in between gets an empty body; a request with no flush parameter or any
\* other flush value is answered with the contents and leaves the buffer as
\* it found it, so a request that follows it undisturbed gets the same body.
C8_FlushClears ==
  \A r \in Requests :
    LET q == req[r].query
        first == IF \E i \in DOMAIN q : q[i][1] = "flush"
                 THEN q[CHOOSE i \in DOMAIN q :
                          /\ q[i][1] = "flush"
                          /\ \A j \in 1..(i - 1) : q[j][1] # "flush"][2]
                 ELSE "absent"
    IN /\ (req[r].pc = "copied" /\ ~req[r].disturbed) => req[r].body = httpBuffer
       /\ req[r].pc = "done" =>
            IF first = "true" THEN req[r].left = <<>>
            ELSE req[r].left = req[r].found
       /\ (req[r].pc # "idle" /\ req[r].after.ok) =>
            req[r].body = IF req[r].after.flush THEN <<>> ELSE req[r].after.body

C8_Witness ==
  /\ req[1].pc = "done" /\ req[1].query = <<<<"flush", "true">>>>
  /\ req[1].body # <<>> /\ httpBuffer = <<>>
  /\ req[2].pc = "done" /\ req[2].query = <<<<"flush", "wrong">>>>
  /\ req[2].body # <<>> /\ req[2].left = req[2].body
  /\ req[1].after.ok /\ ~req[1].after.flush

\* C10: no variant decoder reads a byte at an index at or beyond the
\* message's declared length.
C10_ReadsWithinLength ==
  dOut.ran => dOut.readEnd <= dIn.Length

\* C11: skip is strictly increasing per iteration of the framer's loop: an
\* iteration that previews a header NewMessage accepts (clc becomes a
\* message) or that parses and prints a message (clc becomes nil again) ends
\* with a strictly larger skip than it started with.
C11_SkipIncreases ==
  [][\A d \in Dirs : (fpc[d] = "run" /\ fpc'[d] = "run" /\ clc'[d] # clc[d])
                        => skip'[d] > skip[d]]_vars

\* C12: every header the dispatcher accepts has a declared length of at
\* least 8 and at most 1024.
C12_AcceptedLength ==
  (hOut.previewed /\ hOut.msg # "nil") =>
    (hOut.len >= 8 /\ hOut.len <= 1024)

\* the variant the (type, path) of a header stands for, "nil" for none
VariantOf(typ, path) ==
  CASE typ = 1 -> "Proposal"
    [] typ = 2 /\ path = 0 -> "SMCRAccept"
    [] typ = 2 /\ path = 1 -> "SMCDAccept"
    [] typ = 3 /\ path = 0 -> "SMCRConfirm"
    [] typ = 3 /\ path = 1 -> "SMCDConfirm"
    [] typ = 4 -> "Decline"
    [] OTHER -> "nil"

\* C13: NewMessage returns the empty message of a variant together with the
\* declared length exactly when the preview starts with a valid eyecatcher,
\* the length is at most 1024 and (type, path) stands for a variant; for
\* every other input it returns (nil, 0).
C13_Dispatch ==
  hOut.previewed =>
    LET eye == <<hIn[1], hIn[2], hIn[3], hIn[4]>>
        len == 256 * hIn[6] + hIn[7]
        variant == VariantOf(hIn[5], hIn[8] % 4)
        accepted == /\ eye \in {<<226, 212, 195, 217>>, <<226, 212, 195, 196>>}
                    /\ len <= 1024
                    /\ variant # "nil"
    IN IF accepted THEN hOut.msg = variant /\ hOut.len = len
       ELSE hOut.msg = "nil" /\ hOut.len = 0

C13_Witness ==
  /\ hOut.previewed /\ hOut.msg = "SMCDConfirm" /\ hOut.len = 1024
  /\ hIn[8] = 17

\* the bytes of a header with the given fields
EncodeHeader(h) ==
  h.eyecatcher \o
  <<h.typ, h.Length \div 256, h.Length % 256,
    16 * h.version + 8 * h.flag + 4 * h.reserved + h.path>>

\* C17: header decoding is lossless: for an 8 byte header with a valid
\* eyecatcher the decoded fields are in their ranges, encoding them gives
\* the original bytes, and decoding the encoded header gives the same fields.
C17_HeaderRoundTrip ==
  (hOut.parsed /\ <<hIn[1], hIn[2], hIn[3]>> = <<226, 212, 195>> /\ hIn[4] \in {217, 196}) =>
    LET h == hOut.hdr
    IN /\ h.typ = hIn[5]
       /\ h.Length = 256 * hIn[6] + hIn[7]
       /\ h.version \in 0..15 /\ h.flag \in {0, 1} /\ h.reserved \in {0, 1}
       /\ h.path \in 0..3
       /\ 16 * h.version + 8 * h.flag + 4 * h.reserved + h.path = hIn[8]
       /\ EncodeHeader(h) = hIn
       /\ HeaderParse(EncodeHeader(h)) = h

C17_Witness ==
  /\ hOut.parsed /\ hIn[4] = 217 /\ hIn[8] = 11
  /\ hOut.hdr.flag = 1 /\ hOut.hdr.reserved = 0 /\ hOut.hdr.path = 3

\* C14: an Accept or Confirm whose path is neither SMC-R nor SMC-D is
\* decoded as a message without body and its header is still printed: when
\* the framer has left its loop on a stream that starts with a complete
\* Accept of path 3, a line for that message has been emitted.
C14_UnknownPathPrinted ==
  (/\ stream["c2s"] # <<>>
   /\ Head(stream["c2s"]) = Seg("R", clcAccept, 48, smcTypeB, "R", 48)
   /\ fpc["c2s"] \in {"discard", "done"})
  => \E i \in DOMAIN emitted :
       /\ emitted[i].start = 0
       /\ emitted[i].typ = clcAccept
       /\ emitted[i].path = smcTypeB

\* C15: for every emitted Accept or Confirm (received completely and long
\* enough for its variant) the trailer is the eyecatcher of the header's
\* path: SMC-R for path SMC-R, SMC-D for path SMC-D.
C15_TrailerMatchesPath ==
  \A i \in DOMAIN emitted :
    (/\ emitted[i].typ \in {clcAccept, clcConfirm}
     /\ emitted[i].start + emitted[i].len <= emitted[i].got
     /\ ~emitted[i].short)
    => /\ emitted[i].path = smcTypeR => emitted[i].trailer = "SMC-R"
       /\ emitted[i].path = smcTypeD => emitted[i].trailer = "SMC-D"

\* C16: the framer and the decoders never fault on bad data: no region
\* handed to a decoder lies outside the scratch buffer and no decoder
\* indexes outside the region it was handed, so run() never panics.
C16_NeverFaults ==
  \A d \in Dirs :
    /\ fpc[d] # "panic"
    /\ (fpc[d] = "run" /\ clc[d] # "nil") => skip[d] - clcLen[d] >= 0


(***************************************************************************)
(* Claims about the capture loop.                                          *)
(***************************************************************************)
\* C18: the capture loop never handles more than the configured maximum
\* number of packets, it exits only because the source ended, the maximum
\* packet count was reached or the maximum duration elapsed, and once the
\* maximum duration has elapsed it does exit: as long as it has not, some step
\* of the program still changes the state.
C18_LoopHonorsBounds ==
  /\ maxPkts > 0 => count <= maxPkts
  /\ lpc = "exited" => \/ ppos = "end"
                       \/ maxPkts > 0 /\ count = maxPkts
                       \/ maxTime > 0 /\ stopFired
  /\ (lpc # "exited" /\ maxTime > 0 /\ stopFired) => ENABLED <<NextLoop>>_vars

\* C19: after the capture loop has exited every framer that is still running
\* receives end-of-stream and terminates: as long as one is running, some step
\* of the program still changes the state.
C19_FramersDrain ==
  (lpc = "exited" /\ \E d \in Dirs : fpc[d] \in {"run", "discard"})
    => ENABLED <<NextLoop>>_vars

(***************************************************************************)
(* Claims about the output buffer.                                         *)
(***************************************************************************)
\* the bytes of the output that belong to the line of message k of framer w
IsLineByte(b, w, k) == b.by = w /\ b.msg = k /\ b.part # "dump"

\* C20: writes to the output buffer are serialized and a message's line is
\* written with a single write: every pending write of a framer holds a whole
\* line or a whole dump unless it is the one being copied under the lock, and
\* in the buffer the bytes of one line are contiguous and in order, whatever
\* the interleaving of the framers.
C20_LinesContiguous ==
  /\ \A w \in Dirs : \A n \in DOMAIN wq[w] :
       \/ wq[w][n] \in {LineBytes(w, wnext[w]), DumpBytes(w, wnext[w])}
       \/ n = 1 /\ wpc[w] \in {"write", "unlock"} /\ wlock = w
  /\ \A w \in Dirs, k \in 1..MaxLines :
       \A i, j \in DOMAIN httpBuffer :
         (i < j /\ IsLineByte(httpBuffer[i], w, k) /\ IsLineByte(httpBuffer[j], w, k))
           => /\ \A m \in i..j : IsLineByte(httpBuffer[m], w, k)
              /\ SubSeq(httpBuffer, i, j) \in
                   {SubSeq(LineBytes(w, k), a, a + (j - i)) :
                      a \in 1..(Len(LineBytes(w, k)) - (j - i))}

\* the line of one framer's message lies between two lines of the other
\* framer, all three complete
C20_Witness ==
  \E i \in DOMAIN httpBuffer :
    /\ i + 8 <= Len(httpBuffer)
    /\ SubSeq(httpBuffer, i, i + 8) =
         LineBytes("c2s", 1) \o LineBytes("s2c", 1) \o LineBytes("c2s", 2)

(***************************************************************************)
(* Claims about the SMC option.                                            *)
(***************************************************************************)
\* C21: CheckSMCOption returns true exactly when one of the segment's options
\* is the option of kind 254, length 6 and data E2 D4 C3 D9; an option that
\* differs in kind, length or data (the SMC-D eyecatcher included) does not
\* count.
C21_OptionExact ==
  oOut.ran =>
    (oOut.result <=>
       \E i \in DOMAIN oIn :
         oIn[i] = [OptionType |-> 254, OptionLength |-> 6,
                   OptionData |-> <<226, 212, 195, 217>>])

\* a segment whose second option is the SMC option was accepted, the first
\* being the same option with the SMC-D eyecatcher
C21_Witness ==
  /\ oOut.ran
  /\ oOut.result
  /\ Len(oIn) = 2
  /\ oIn[1] = Opt(254, 6, smcdEyecatcher)
  /\ oIn[2] = SMCOption

(***************************************************************************)
(* Claims about the framer after a rejected header.                        *)
(***************************************************************************)
\* the 8 bytes of stream ss at offset off
HeaderAt(ss, off) == [k \in 1..CLCHeaderLen |-> ByteAt(ss, off + k - 1)]

\* the offset of the first header of ss that the dispatcher rejects, walking
\* from off by the declared lengths; -1 when the stream ends first (or a
\* declared length does not reach past its header)
RECURSIVE FirstRejected(_, _)
FirstRejected(ss, off) ==
  IF off + CLCHeaderLen > StreamLen(ss) THEN -1
  ELSE LET m == NewMessage(HeaderAt(ss, off))
       IN IF m.msg = "nil" THEN off
          ELSE IF m.len < CLCHeaderLen THEN -1
          ELSE FirstRejected(ss, off + m.len)

Terminal(d) == fpc[d] \in {"discard", "done"}

\* C22: once a header preview has failed the framer emits nothing more for
\* the direction (every emitted message ends at or before the rejected
\* header), stays in its terminal state, keeps discarding as long as input or
\* end-of-stream is outstanding, and is done only when all input of the
\* stream was consumed and end-of-stream was reported.
C22_PreviewFailureTerminal ==
  /\ [](\A n \in DOMAIN emitted :
         LET bad == FirstRejected(stream[emitted[n].dir], 0)
         IN bad >= 0 => emitted[n].start + emitted[n].len <= bad)
  /\ [](fpc["c2s"] = "done" =>
         /\ rclosed["c2s"]
         /\ rpos["c2s"] = StreamLen(stream["c2s"]))
  /\ [](fpc["c2s"] = "discard" => ENABLED <<NextFramer>>_vars)
  /\ [][Terminal("c2s") => (emitted' = emitted /\ Terminal("c2s")')]_vars

\* a Decline was emitted, the Accept with path 3 after it was rejected, and
\* the framer is done without having emitted the Decline that follows
C22_Witness ==
  /\ stream["c2s"] = <<Seg("R", clcDecline, 28, smcTypeR, "R", 28),
                       Seg("R", clcAccept, 48, smcTypeB, "R", 48),
                       Seg("R", clcDecline, 28, smcTypeR, "R", 28)>>
  /\ fpc["c2s"] = "done"
  /\ Len(emitted) = 1
  /\ FirstRejected(stream["c2s"], 0) = 28

\* the sum of the declared lengths of the first n emitted messages
RECURSIVE DeclaredUpTo(_)
DeclaredUpTo(n) == IF n = 0 THEN 0 ELSE DeclaredUpTo(n - 1) + emitted[n].len

\* C23: every header is previewed at the stream offset that is the sum of the
\* declared lengths of the messages previewed before it, whatever became of
\* their trailers and bodies: each emitted message starts there, and so does
\* the message that is previewed and not yet parsed, and the header the
\* running framer will preview next.
C23_FramingOffsets ==
  /\ \A n \in DOMAIN emitted : emitted[n].start = DeclaredUpTo(n - 1)
  /\ fpc["c2s"] = "run" =>
       (IF clc["c2s"] = "nil" THEN skip["c2s"] - CLCHeaderLen
        ELSE skip["c2s"] - clcLen["c2s"]) = DeclaredUpTo(Len(emitted))

\* a Decline with an invalid trailer was emitted and the Decline after it
\* was previewed at offset 28 and emitted too
C23_Witness ==
  /\ Len(emitted) = 2
  /\ emitted[1].trailer \notin {"SMC-R", "SMC-D"}
  /\ ~emitted[1].short
  /\ emitted[2].start = 28
  /\ emitted[2].trailer = "SMC-R"

(***************************************************************************)
(* Claims about the output with hex dumps.                                 *)
(***************************************************************************)
\* C24: with -dumps a message's hex dump immediately follows the message's
\* own line: the byte before a dump in the output is the newline of the line
\* of the same message of the same framer.
C24_DumpFollowsLine ==
  \A i \in DOMAIN httpBuffer :
    httpBuffer[i].part = "dump" =>
      /\ i > 1
      /\ httpBuffer[i - 1] = [by |-> httpBuffer[i].by, msg |-> httpBuffer[i].msg,
                              part |-> "newline"]

(***************************************************************************)
(* Claims about the HTTP buffer under concurrent writes.                   *)
(***************************************************************************)
\* C25: no written output is lost to a flush: every byte written to the
\* buffer is still in the buffer or was contained in the response of some
\* request.
C25_NoOutputLost ==
  \A b \in 1..nwrites :
    \/ \E i \in DOMAIN httpBuffer : httpBuffer[i] = b
    \/ b \in served

(***************************************************************************)
(* Claims about the handler's check and add.                               *)
(***************************************************************************)
\* handlePacket is through with the flow table: get returned false, or the
\* add after a true get has returned
HandlerThrough ==
  \/ ftCall["handler"].op = "get" /\ ftCall["handler"].phase = "returned"
       /\ ~ftCall["handler"].ret
  \/ ftCall["handler"].op = "add" /\ ftCall["handler"].phase = "returned"

FirstEntryAt(in) ==
  (IF in.ipAreaOffset = 40 THEN 40 + 8 + 32 ELSE 40 + in.ipAreaOffset) + 4 + 1 + 2 + 1

\* the decoder gets as far as the IPv6 prefix count
ReachesPrefixes(in) ==
  /\ in.msg = "Proposal"
  /\ in.Length >= 52
  /\ in.Length - (FirstEntryAt(in) - 8) >= 12

\* the number of 17 byte entries that fit before the 4 byte trailer
EntriesThatFit(in) == (in.Length - 4 - FirstEntryAt(in)) \div 17

\* C28: a Proposal whose IPv6 prefix count exceeds the entries that fit
\* before the trailer is reported and still returned, with exactly the
\* entries that fit: the decoded entries number the minimum of the count and
\* the entries that fit, and the last of them ends at or before offset
\* length - 4.
C28_PrefixCountAdvisory ==
  (dOut.ran /\ ReachesPrefixes(dIn)) =>
    /\ dOut.ok
    /\ dOut.prefixes = Min(dIn.ipv6PrefixesCnt, EntriesThatFit(dIn))
    /\ FirstEntryAt(dIn) + 17 * dOut.prefixes <= dIn.Length - 4
    /\ (dOut.err = "IPv6 prefix count too big")
         <=> dIn.ipv6PrefixesCnt > EntriesThatFit(dIn)

\* a Proposal of length 92 that announces 255 prefixes was returned with the
\* 2 that fit
C28_Witness ==
  /\ dOut.ran /\ dOut.ok
  /\ dIn.msg = "Proposal" /\ dIn.Length = 92 /\ dIn.ipAreaOffset = 0
  /\ dIn.ipv6PrefixesCnt = 255
  /\ dOut.prefixes = 2
  /\ dOut.err = "IPv6 prefix count too big"

\* C29: in the Proposal decoder the SMC-D info is read exactly when
\* ipAreaOffset is 40, a returned proposal had its IPv4 prefix block read at
\* offset 40 + ipAreaOffset, and the decoder fails with "IP Area Offset too
\* big" and no proposal exactly when fewer than 12 bytes lie between that
\* offset and the declared length.
C29_IPAreaOffset ==
  (dOut.ran /\ dIn.msg = "Proposal" /\ dIn.Length >= 52) =>
    /\ dOut.ok => (dOut.smcd <=> dIn.ipAreaOffset = 40)
    /\ dOut.ok => dOut.prefixAt = 40 + dIn.ipAreaOffset
    /\ (~dOut.ok /\ dOut.err = "IP Area Offset too big")
         <=> dIn.Length - (40 + dIn.ipAreaOffset) < 12

(***************************************************************************)
(* Claims about the decoders' length checks.                               *)
(***************************************************************************)
\* the minimum length of each variant
MinimumOf(msg) ==
  CASE msg = "Proposal" -> 52
    [] msg \in {"SMCRAccept", "SMCRConfirm"} -> 68
    [] msg \in {"SMCDAccept", "SMCDConfirm"} -> 48
    [] msg = "Decline" -> 28

\* C30: a variant decoder handed a message shorter than its variant's
\* minimum reports "message too short", returns no value and has read no
\* body field (nothing past the declared length, no IP area, no prefix); a
\* message of at least the minimum is not reported as too short.
C30_LengthCheckedFirst ==
  dOut.ran =>
    IF dIn.Length < MinimumOf(dIn.msg)
    THEN /\ ~dOut.ok /\ ~dOut.panic
         /\ dOut.err = "message too short"
         /\ dOut.readEnd <= dIn.Length
         /\ ~dOut.smcd /\ dOut.prefixAt = -1 /\ dOut.prefixes = 0
    ELSE dOut.err # "message too short"

\* an SMC-R Confirm of 67 bytes was refused as too short
C30_Witness ==
  /\ dOut.ran
  /\ dIn.msg = "SMCRConfirm" /\ dIn.Length = 67
  /\ dOut.err = "message too short"
  /\ ~dOut.ok

(***************************************************************************)
(* Claims about the framer and the sizes of its reads.                     *)
(***************************************************************************)
\* what was emitted for direction d: for each message its offset, declared
\* length, variant, header fields and what became of its body and trailer
EmittedOf(d) ==
  LET own == SelectSeq(emitted, LAMBDA e : e.dir = d)
  IN [n \in DOMAIN own |->
        [start |-> own[n].start, len |-> own[n].len, msg |-> own[n].msg,
         typ |-> own[n].typ, path |-> own[n].path, short |-> own[n].short,
         trailer |-> own[n].trailer]]

\* C26: what the framer emits depends on the stream's bytes and not on how
\* they are split across reads: of two runs on the same bytes fed in
\* different chunks the messages emitted so far by one are a prefix of those
\* of the other, and once both runs have ended they have emitted the same
\* sequence and ended the same way.
C26_ReadSizesDoNotMatter ==
  LET a == EmittedOf("c2s")
      b == EmittedOf("s2c")
  IN /\ \A n \in DOMAIN a \cap DOMAIN b : a[n] = b[n]
     /\ (FramerTerminated("c2s") /\ FramerTerminated("s2c"))
          => (a = b /\ fpc["c2s"] = fpc["s2c"])

\* both runs have ended with the same two messages, one fed in chunks of 5
\* and the rest, the other fed all at once
C26_Witness ==
  /\ fpc["c2s"] = "done" /\ fpc["s2c"] = "done"
  /\ chunks["c2s"] = 2 /\ chunks["s2c"] = 1
  /\ Len(EmittedOf("c2s")) = 2
  /\ Len(EmittedOf("s2c")) = 2

====
